---- MODULE Spec2Model ----
(***************************************************************************)
(* A model of enacl's NIF library, c_src/enacl_nif.c: the table nif_funcs  *)
(* that registers every entry with the Erlang runtime (regular or dirty    *)
(* CPU-bound), and the handlers enif_crypto_*, each of which inspects its  *)
(* arguments, checks their sizes, allocates its output binaries, calls the *)
(* libsodium primitive and builds the returned term.                       *)
(*                                                                         *)
(* A call is run in steps (check, alloc, exec, ret) so that calls on       *)
(* different scheduler threads interleave.  Binaries live in a heap of     *)
(* buffers; a buffer is free, allocated (owned by a handler's local        *)
(* ErlNifBinary) or owned by a term.                                       *)
(***************************************************************************)
EXTENDS Integers, Sequences, FiniteSets, TLC

(***************************************************************************)
(* Sizes of libsodium (sodium.h), as the source names them.                *)
(***************************************************************************)
crypto_hash_BYTES == 64
crypto_box_NONCEBYTES == 24
crypto_box_ZEROBYTES == 32
crypto_box_BOXZEROBYTES == 16
crypto_box_PUBLICKEYBYTES == 32
crypto_box_SECRETKEYBYTES == 32
crypto_sign_PUBLICKEYBYTES == 32
crypto_sign_SECRETKEYBYTES == 64
crypto_sign_BYTES == 64
crypto_secretbox_NONCEBYTES == 24
crypto_secretbox_KEYBYTES == 32
crypto_secretbox_ZEROBYTES == 32
crypto_secretbox_BOXZEROBYTES == 16
crypto_stream_KEYBYTES == 32
crypto_stream_NONCEBYTES == 24
crypto_auth_BYTES == 32
crypto_auth_KEYBYTES == 32
crypto_onetimeauth_BYTES == 16
crypto_onetimeauth_KEYBYTES == 32

(***************************************************************************)
(* Bounds of the model.                                                    *)
(***************************************************************************)
\* calls (caller processes) that may be in flight at once under SpecConc
MaxCalls == 2
\* buffers of the binary heap; with none free enif_alloc_binary fails
MaxBufs == 2
\* regular scheduler threads
MaxSchedulers == 1
\* dirty CPU scheduler threads
MaxDirty == 1

(***************************************************************************)
(* Terms passed as arguments.  A term is a binary, an iolist that is not a *)
(* binary, an integer or an atom; size is its byte size (its value, for an *)
(* integer) and data stands for its bytes.                                 *)
(***************************************************************************)
Term(k, n, d) == [kind |-> k, size |-> n, data |-> d]

\* enif_inspect_binary: only a binary
enif_inspect_binary(t) == t.kind = "binary"

\* enif_inspect_iolist_as_binary: a binary or an iolist
enif_inspect_iolist_as_binary(t) == t.kind \in {"binary", "iolist"}

\* enif_get_uint64: only a non-negative integer
enif_get_uint64(t) == t.kind = "integer" /\ t.size >= 0

(***************************************************************************)
(* What a handler does once its arguments are known: reject them (badarg), *)
(* or allocate the binaries of `alloc` in order, call `prim`, and return   *)
(*   "binary"   enif_make_binary of the whole binary,                      *)
(*   "sub"      enif_make_sub_binary(pos, len),                            *)
(*   "sublen"   enif_make_sub_binary(0, the length the primitive reports), *)
(*   "tuple2"   a pair of the two binaries,                                *)
(*   "bool"     true or false by the primitive's return code,              *)
(*   "int"      the integer `len`.                                         *)
(* checked: the handler tests the primitive's return code and, when it is  *)
(* not 0, releases the binary and returns {error, failed_verification}.    *)
(***************************************************************************)
Plan(a, p, c, r, o, l) ==
    [badarg |-> FALSE, alloc |-> a, prim |-> p, checked |-> c,
     ret |-> r, pos |-> o, len |-> l]

BadargPlan ==
    [badarg |-> TRUE, alloc |-> <<>>, prim |-> "none", checked |-> FALSE,
     ret |-> "badarg", pos |-> 0, len |-> 0]

ConstPlan(n) == Plan(<<>>, "none", FALSE, "int", 0, n)

enif_crypto_hash(argc, argv) ==
    IF (argc # 1) \/ ~enif_inspect_iolist_as_binary(argv[1])
    THEN BadargPlan
    ELSE Plan(<<crypto_hash_BYTES>>, "crypto_hash", FALSE, "binary", 0, crypto_hash_BYTES)

enif_crypto_verify_16(argc, argv) ==
    IF (argc # 2) \/ ~enif_inspect_binary(argv[1]) \/ ~enif_inspect_binary(argv[2])
    THEN BadargPlan
    ELSE IF argv[1].size # 16 \/ argv[2].size # 16
    THEN BadargPlan
    ELSE Plan(<<>>, "crypto_verify_16", FALSE, "bool", 0, 0)

enif_crypto_verify_32(argc, argv) ==
    IF (argc # 2) \/ ~enif_inspect_binary(argv[1]) \/ ~enif_inspect_binary(argv[2])
    THEN BadargPlan
    ELSE IF argv[1].size # 32 \/ argv[2].size # 32
    THEN BadargPlan
    ELSE Plan(<<>>, "crypto_verify_32", FALSE, "bool", 0, 0)

enif_crypto_box_keypair(argc, argv) ==
    IF argc # 0
    THEN BadargPlan
    ELSE Plan(<<crypto_box_PUBLICKEYBYTES, crypto_box_SECRETKEYBYTES>>,
              "crypto_box_keypair", FALSE, "tuple2", 0, 0)

enif_crypto_box(argc, argv) ==
    IF (argc # 4)
       \/ ~enif_inspect_iolist_as_binary(argv[1])
       \/ ~enif_inspect_binary(argv[2])
       \/ ~enif_inspect_binary(argv[3])
       \/ ~enif_inspect_binary(argv[4])
    THEN BadargPlan
    ELSE IF (argv[2].size # crypto_box_NONCEBYTES)
            \/ (argv[3].size # crypto_box_PUBLICKEYBYTES)
            \/ (argv[4].size # crypto_box_SECRETKEYBYTES)
            \/ (argv[1].size < crypto_box_ZEROBYTES)
    THEN BadargPlan
    ELSE Plan(<<argv[1].size>>, "crypto_box", FALSE, "sub",
              crypto_box_BOXZEROBYTES, argv[1].size - crypto_box_BOXZEROBYTES)

enif_crypto_box_open(argc, argv) ==
    IF (argc # 4)
       \/ ~enif_inspect_iolist_as_binary(argv[1])
       \/ ~enif_inspect_binary(argv[2])
       \/ ~enif_inspect_binary(argv[3])
       \/ ~enif_inspect_binary(argv[4])
    THEN BadargPlan
    ELSE IF (argv[2].size # crypto_box_NONCEBYTES)
            \/ (argv[3].size # crypto_box_PUBLICKEYBYTES)
            \/ (argv[4].size # crypto_box_SECRETKEYBYTES)
            \/ (argv[1].size < crypto_box_BOXZEROBYTES)
    THEN BadargPlan
    ELSE Plan(<<argv[1].size>>, "crypto_box_open", TRUE, "sub",
              crypto_box_ZEROBYTES, argv[1].size - crypto_box_ZEROBYTES)

enif_crypto_sign_keypair(argc, argv) ==
    IF argc # 0
    THEN BadargPlan
    ELSE Plan(<<crypto_sign_PUBLICKEYBYTES, crypto_sign_SECRETKEYBYTES>>,
              "crypto_sign_keypair", FALSE, "tuple2", 0, 0)

enif_crypto_sign(argc, argv) ==
    IF (argc # 2)
       \/ ~enif_inspect_iolist_as_binary(argv[1])
       \/ ~enif_inspect_binary(argv[2])
    THEN BadargPlan
    ELSE IF argv[2].size # crypto_sign_SECRETKEYBYTES
    THEN BadargPlan
    ELSE Plan(<<argv[1].size + crypto_sign_BYTES>>, "crypto_sign", FALSE, "sublen", 0, 0)

enif_crypto_sign_open(argc, argv) ==
    IF (argc # 2)
       \/ ~enif_inspect_iolist_as_binary(argv[1])
       \/ ~enif_inspect_binary(argv[2])
    THEN BadargPlan
    ELSE IF argv[2].size # crypto_sign_PUBLICKEYBYTES
    THEN BadargPlan
    ELSE Plan(<<argv[1].size>>, "crypto_sign_open", TRUE, "sublen", 0, 0)

enif_crypto_secretbox(argc, argv) ==
    IF (argc # 3)
       \/ ~enif_inspect_iolist_as_binary(argv[1])
       \/ ~enif_inspect_binary(argv[2])
       \/ ~enif_inspect_binary(argv[3])
    THEN BadargPlan
    ELSE IF (argv[3].size # crypto_secretbox_KEYBYTES)
            \/ (argv[2].size # crypto_secretbox_NONCEBYTES)
            \/ (argv[1].size < crypto_secretbox_ZEROBYTES)
    THEN BadargPlan
    ELSE Plan(<<argv[1].size>>, "crypto_secretbox", FALSE, "sub",
              crypto_secretbox_BOXZEROBYTES,
              argv[1].size - crypto_secretbox_BOXZEROBYTES)

\* enif_crypto_secretbox_open that strips BOXZEROBYTES from what it opened
enif_crypto_secretbox_open_boxzero(argc, argv) ==
    IF (argc # 3)
       \/ ~enif_inspect_iolist_as_binary(argv[1])
       \/ ~enif_inspect_binary(argv[2])
       \/ ~enif_inspect_binary(argv[3])
    THEN BadargPlan
    ELSE IF (argv[3].size # crypto_secretbox_KEYBYTES)
            \/ (argv[2].size # crypto_secretbox_NONCEBYTES)
            \/ (argv[1].size < crypto_secretbox_BOXZEROBYTES)
    THEN BadargPlan
    ELSE Plan(<<argv[1].size>>, "crypto_secretbox_open", TRUE, "sub",
              crypto_secretbox_BOXZEROBYTES,
              argv[1].size - crypto_secretbox_BOXZEROBYTES)

\* enif_crypto_secretbox_open without the minimum on the padded ciphertext
enif_crypto_secretbox_open_nomin(argc, argv) ==
    IF (argc # 3)
       \/ ~enif_inspect_iolist_as_binary(argv[1])
       \/ ~enif_inspect_binary(argv[2])
       \/ ~enif_inspect_binary(argv[3])
    THEN BadargPlan
    ELSE IF (argv[3].size # crypto_secretbox_KEYBYTES)
            \/ (argv[2].size # crypto_secretbox_NONCEBYTES)
    THEN BadargPlan
    ELSE Plan(<<argv[1].size>>, "crypto_secretbox_open", TRUE, "sub",
              crypto_secretbox_ZEROBYTES,
              argv[1].size - crypto_secretbox_ZEROBYTES)

enif_crypto_secretbox_open(argc, argv) ==
    IF (argc # 3)
       \/ ~enif_inspect_iolist_as_binary(argv[1])
       \/ ~enif_inspect_binary(argv[2])
       \/ ~enif_inspect_binary(argv[3])
    THEN BadargPlan
    ELSE IF (argv[3].size # crypto_secretbox_KEYBYTES)
            \/ (argv[2].size # crypto_secretbox_NONCEBYTES)
            \/ (argv[1].size < crypto_secretbox_BOXZEROBYTES)
    THEN BadargPlan
    ELSE Plan(<<argv[1].size>>, "crypto_secretbox_open", TRUE, "sub",
              crypto_secretbox_ZEROBYTES,
              argv[1].size - crypto_secretbox_ZEROBYTES)

enif_crypto_stream(argc, argv) ==
    IF (argc # 3)
       \/ ~enif_get_uint64(argv[1])
       \/ ~enif_inspect_binary(argv[2])
       \/ ~enif_inspect_binary(argv[3])
    THEN BadargPlan
    ELSE IF (argv[3].size # crypto_stream_KEYBYTES)
            \/ (argv[2].size # crypto_stream_NONCEBYTES)
    THEN BadargPlan
    ELSE Plan(<<argv[1].size>>, "crypto_stream", FALSE, "binary", 0, argv[1].size)

enif_crypto_stream_xor(argc, argv) ==
    IF (argc # 3)
       \/ ~enif_inspect_iolist_as_binary(argv[1])
       \/ ~enif_inspect_binary(argv[2])
       \/ ~enif_inspect_binary(argv[3])
    THEN BadargPlan
    ELSE IF (argv[3].size # crypto_stream_KEYBYTES)
            \/ (argv[2].size # crypto_stream_NONCEBYTES)
    THEN BadargPlan
    ELSE Plan(<<argv[1].size>>, "crypto_stream_xor", FALSE, "binary", 0, argv[1].size)

\* enif_crypto_auth with a binary sized for a hash instead of an authenticator
enif_crypto_auth_hashsized(argc, argv) ==
    IF (argc # 2)
       \/ ~enif_inspect_iolist_as_binary(argv[1])
       \/ ~enif_inspect_binary(argv[2])
    THEN BadargPlan
    ELSE IF argv[2].size # crypto_auth_KEYBYTES
    THEN BadargPlan
    ELSE Plan(<<crypto_hash_BYTES>>, "crypto_auth", FALSE, "binary", 0, crypto_hash_BYTES)

enif_crypto_auth(argc, argv) ==
    IF (argc # 2)
       \/ ~enif_inspect_iolist_as_binary(argv[1])
       \/ ~enif_inspect_binary(argv[2])
    THEN BadargPlan
    ELSE IF argv[2].size # crypto_auth_KEYBYTES
    THEN BadargPlan
    ELSE Plan(<<crypto_auth_BYTES>>, "crypto_auth", FALSE, "binary", 0, crypto_auth_BYTES)

enif_crypto_auth_verify(argc, argv) ==
    IF (argc # 3)
       \/ ~enif_inspect_binary(argv[1])
       \/ ~enif_inspect_iolist_as_binary(argv[2])
       \/ ~enif_inspect_binary(argv[3])
    THEN BadargPlan
    ELSE IF (argv[3].size # crypto_auth_KEYBYTES)
            \/ (argv[1].size # crypto_auth_BYTES)
    THEN BadargPlan
    ELSE Plan(<<>>, "crypto_auth_verify", FALSE, "bool", 0, 0)

enif_crypto_onetimeauth(argc, argv) ==
    IF (argc # 2)
       \/ ~enif_inspect_iolist_as_binary(argv[1])
       \/ ~enif_inspect_binary(argv[2])
    THEN BadargPlan
    ELSE IF argv[2].size # crypto_onetimeauth_KEYBYTES
    THEN BadargPlan
    ELSE Plan(<<crypto_onetimeauth_BYTES>>, "crypto_onetimeauth", FALSE, "binary",
              0, crypto_onetimeauth_BYTES)

enif_crypto_onetimeauth_verify(argc, argv) ==
    IF (argc # 3)
       \/ ~enif_inspect_binary(argv[1])
       \/ ~enif_inspect_iolist_as_binary(argv[2])
       \/ ~enif_inspect_binary(argv[3])
    THEN BadargPlan
    ELSE IF (argv[3].size # crypto_onetimeauth_KEYBYTES)
            \/ (argv[1].size # crypto_onetimeauth_BYTES)
    THEN BadargPlan
    ELSE Plan(<<>>, "crypto_onetimeauth_verify", FALSE, "bool", 0, 0)


(***************************************************************************)
(* nif_funcs: the entries registered with the runtime.  flags is 0 for an  *)
(* entry run on the calling (regular) scheduler thread, or                 *)
(* ERL_NIF_DIRTY_JOB_CPU_BOUND for one run on a dirty CPU scheduler.       *)
(***************************************************************************)
ERL_NIF_DIRTY_JOB_CPU_BOUND == 1

NifFunc(n, a, f, fl) == [name |-> n, arity |-> a, fptr |-> f, flags |-> fl]

nif_funcs == <<
    NifFunc("crypto_box_NONCEBYTES", 0, "enif_crypto_box_NONCEBYTES", 0),
    NifFunc("crypto_box_ZEROBYTES", 0, "enif_crypto_box_ZEROBYTES", 0),
    NifFunc("crypto_box_BOXZEROBYTES", 0, "enif_crypto_box_BOXZEROBYTES", 0),
    NifFunc("crypto_box_PUBLICKEYBYTES", 0, "enif_crypto_box_PUBLICKEYBYTES", 0),
    NifFunc("crypto_box_SECRETKEYBYTES", 0, "enif_crypto_box_SECRETKEYBYTES", 0),
    NifFunc("crypto_box_keypair", 0, "enif_crypto_box_keypair", 0),
    NifFunc("crypto_box_b", 4, "enif_crypto_box", 0),
    NifFunc("crypto_box", 4, "enif_crypto_box", ERL_NIF_DIRTY_JOB_CPU_BOUND),
    NifFunc("crypto_box_open_b", 4, "enif_crypto_box_open", 0),
    NifFunc("crypto_box_open", 4, "enif_crypto_box_open", ERL_NIF_DIRTY_JOB_CPU_BOUND),

    NifFunc("crypto_sign_PUBLICKEYBYTES", 0, "enif_crypto_sign_PUBLICKEYBYTES", 0),
    NifFunc("crypto_sign_SECRETKEYBYTES", 0, "enif_crypto_sign_SECRETKEYBYTES", 0),
    NifFunc("crypto_sign_keypair", 0, "enif_crypto_sign_keypair", 0),
    NifFunc("crypto_sign_b", 2, "enif_crypto_sign", 0),
    NifFunc("crypto_sign", 2, "enif_crypto_sign", ERL_NIF_DIRTY_JOB_CPU_BOUND),
    NifFunc("crypto_sign_open_b", 2, "enif_crypto_sign_open", 0),
    NifFunc("crypto_sign_open", 2, "enif_crypto_sign_open", ERL_NIF_DIRTY_JOB_CPU_BOUND),

    NifFunc("crypto_secretbox_NONCEBYTES", 0, "enif_crypto_secretbox_NONCEBYTES", 0),
    NifFunc("crypto_secretbox_ZEROBYTES", 0, "enif_crypto_secretbox_ZEROBYTES", 0),
    NifFunc("crypto_secretbox_BOXZEROBYTES", 0, "enif_crypto_secretbox_BOXZEROBYTES", 0),
    NifFunc("crypto_secretbox_KEYBYTES", 0, "enif_crypto_secretbox_KEYBYTES", 0),
    NifFunc("crypto_secretbox_b", 3, "enif_crypto_secretbox", 0),
    NifFunc("crypto_secretbox", 3, "enif_crypto_secretbox", ERL_NIF_DIRTY_JOB_CPU_BOUND),
    NifFunc("crypto_secretbox_open_b", 3, "enif_crypto_secretbox_open", 0),
    NifFunc("crypto_secretbox_open", 3, "enif_crypto_secretbox_open",
            ERL_NIF_DIRTY_JOB_CPU_BOUND),

    NifFunc("crypto_stream_KEYBYTES", 0, "enif_crypto_stream_KEYBYTES", 0),
    NifFunc("crypto_stream_NONCEBYTES", 0, "enif_crypto_stream_NONCEBYTES", 0),
    NifFunc("crypto_stream_b", 3, "enif_crypto_stream", 0),
    NifFunc("crypto_stream", 3, "enif_crypto_stream", ERL_NIF_DIRTY_JOB_CPU_BOUND),
    NifFunc("crypto_stream_xor_b", 3, "enif_crypto_stream_xor", 0),
    NifFunc("crypto_stream_xor", 3, "enif_crypto_stream_xor", ERL_NIF_DIRTY_JOB_CPU_BOUND),

    NifFunc("crypto_auth_BYTES", 0, "enif_crypto_auth_BYTES", 0),
    NifFunc("crypto_auth_KEYBYTES", 0, "enif_crypto_auth_KEYBYTES", 0),
    NifFunc("crypto_auth_b", 2, "enif_crypto_auth", 0),
    NifFunc("crypto_auth", 2, "enif_crypto_auth", ERL_NIF_DIRTY_JOB_CPU_BOUND),
    NifFunc("crypto_auth_verify_b", 3, "enif_crypto_auth_verify", 0),
    NifFunc("crypto_auth_verify", 3, "enif_crypto_auth_verify",
            ERL_NIF_DIRTY_JOB_CPU_BOUND),

    NifFunc("crypto_onetimeauth_BYTES", 0, "enif_crypto_onetimeauth_BYTES", 0),
    NifFunc("crypto_onetimeauth_KEYBYTES", 0, "enif_crypto_onetimeauth_KEYBYTES", 0),
    NifFunc("crypto_onetimeauth_b", 2, "enif_crypto_onetimeauth", 0),
    NifFunc("crypto_onetimeauth", 2, "enif_crypto_onetimeauth",
            ERL_NIF_DIRTY_JOB_CPU_BOUND),
    NifFunc("crypto_onetimeauth_verify_b", 3, "enif_crypto_onetimeauth_verify", 0),
    NifFunc("crypto_onetimeauth_verify", 3, "enif_crypto_onetimeauth_verify",
            ERL_NIF_DIRTY_JOB_CPU_BOUND),

    NifFunc("crypto_hash_b", 1, "enif_crypto_hash", 0),
    NifFunc("crypto_hash", 1, "enif_crypto_hash", ERL_NIF_DIRTY_JOB_CPU_BOUND),
    NifFunc("crypto_verify_16", 2, "enif_crypto_verify_16", 0),
    NifFunc("crypto_verify_32", 2, "enif_crypto_verify_32", 0)
>>

EntryNames == {nif_funcs[i].name : i \in 1..Len(nif_funcs)}

\* the table with crypto_hash_b registered as a dirty job too
EntryFlagSlip(n) ==
    LET e == nif_funcs[CHOOSE i \in 1..Len(nif_funcs) : nif_funcs[i].name = n] IN
    IF n = "crypto_hash_b" THEN [e EXCEPT !.flags = ERL_NIF_DIRTY_JOB_CPU_BOUND] ELSE e

\* the table with crypto_secretbox_b bound to the handler of secretbox_open
EntryFptrSlip(n) ==
    LET e == nif_funcs[CHOOSE i \in 1..Len(nif_funcs) : nif_funcs[i].name = n] IN
    IF n = "crypto_secretbox_b" THEN [e EXCEPT !.fptr = "enif_crypto_secretbox_open"] ELSE e

\* the table with crypto_hash registered without the dirty job flag
EntryUnflagged(n) ==
    LET e == nif_funcs[CHOOSE i \in 1..Len(nif_funcs) : nif_funcs[i].name = n] IN
    IF n = "crypto_hash" THEN [e EXCEPT !.flags = 0] ELSE e

\* the entry registered under a name (names are unique in the table)
Entry(n) == nif_funcs[CHOOSE i \in 1..Len(nif_funcs) : nif_funcs[i].name = n]

\* the handlers that only return a size of the library
SizeGetter(f) ==
    CASE f = "enif_crypto_box_NONCEBYTES" -> crypto_box_NONCEBYTES
      [] f = "enif_crypto_box_ZEROBYTES" -> crypto_box_ZEROBYTES
      [] f = "enif_crypto_box_BOXZEROBYTES" -> crypto_box_BOXZEROBYTES
      [] f = "enif_crypto_box_PUBLICKEYBYTES" -> crypto_box_PUBLICKEYBYTES
      [] f = "enif_crypto_box_SECRETKEYBYTES" -> crypto_box_SECRETKEYBYTES
      [] f = "enif_crypto_sign_PUBLICKEYBYTES" -> crypto_sign_PUBLICKEYBYTES
      [] f = "enif_crypto_sign_SECRETKEYBYTES" -> crypto_sign_SECRETKEYBYTES
      [] f = "enif_crypto_secretbox_NONCEBYTES" -> crypto_secretbox_NONCEBYTES
      [] f = "enif_crypto_secretbox_KEYBYTES" -> crypto_secretbox_KEYBYTES
      [] f = "enif_crypto_secretbox_ZEROBYTES" -> crypto_secretbox_ZEROBYTES
      [] f = "enif_crypto_secretbox_BOXZEROBYTES" -> crypto_secretbox_BOXZEROBYTES
      [] f = "enif_crypto_stream_KEYBYTES" -> crypto_stream_KEYBYTES
      [] f = "enif_crypto_stream_NONCEBYTES" -> crypto_stream_NONCEBYTES
      [] f = "enif_crypto_auth_BYTES" -> crypto_auth_BYTES
      [] f = "enif_crypto_auth_KEYBYTES" -> crypto_auth_KEYBYTES
      [] f = "enif_crypto_onetimeauth_BYTES" -> crypto_onetimeauth_BYTES
      [] f = "enif_crypto_onetimeauth_KEYBYTES" -> crypto_onetimeauth_KEYBYTES

\* the call through an entry's function pointer
Handler(f, argc, argv) ==
    CASE f = "enif_crypto_hash" -> enif_crypto_hash(argc, argv)
      [] f = "enif_crypto_verify_16" -> enif_crypto_verify_16(argc, argv)
      [] f = "enif_crypto_verify_32" -> enif_crypto_verify_32(argc, argv)
      [] f = "enif_crypto_box_keypair" -> enif_crypto_box_keypair(argc, argv)
      [] f = "enif_crypto_box" -> enif_crypto_box(argc, argv)
      [] f = "enif_crypto_box_open" -> enif_crypto_box_open(argc, argv)
      [] f = "enif_crypto_sign_keypair" -> enif_crypto_sign_keypair(argc, argv)
      [] f = "enif_crypto_sign" -> enif_crypto_sign(argc, argv)
      [] f = "enif_crypto_sign_open" -> enif_crypto_sign_open(argc, argv)
      [] f = "enif_crypto_secretbox" -> enif_crypto_secretbox(argc, argv)
      [] f = "enif_crypto_secretbox_open" -> enif_crypto_secretbox_open(argc, argv)
      [] f = "enif_crypto_stream" -> enif_crypto_stream(argc, argv)
      [] f = "enif_crypto_stream_xor" -> enif_crypto_stream_xor(argc, argv)
      [] f = "enif_crypto_auth" -> enif_crypto_auth(argc, argv)
      [] f = "enif_crypto_auth_verify" -> enif_crypto_auth_verify(argc, argv)
      [] f = "enif_crypto_onetimeauth" -> enif_crypto_onetimeauth(argc, argv)
      [] f = "enif_crypto_onetimeauth_verify" -> enif_crypto_onetimeauth_verify(argc, argv)
      [] OTHER -> ConstPlan(SizeGetter(f))

(***************************************************************************)
(* The libsodium primitives: pure functions of their input bytes (and of   *)
(* the library's random source, for the key pairs).  An opened box, a      *)
(* verified signature or authenticator is accepted iff its bytes were made *)
(* under the key given: data of the sealed argument = data of the key.     *)
(* The open primitives reject an input too short to hold an authenticator. *)
(***************************************************************************)
\* what a primitive is given for one argument: its length and its bytes
InOf(t) == <<t.size, t.data>>

\* a binary a caller builds from what an earlier call returned: n zero bytes
\* followed by the bytes of the binary term bin
Repad(n, bin) == [kind |-> "binary", size |-> n + bin.len, data |-> 2, from |-> bin]

\* whether the bytes of t were built from an earlier result
Built(t) == "from" \in DOMAIN t

\* the round-trip contract of the primitives: an input built from the output
\* of the sealing primitive is accepted iff it is the whole of that output,
\* laid out as the opening primitive expects it (BOXZEROBYTES zero bytes in
\* front of a box, nothing in front of a signed message), and the nonce and
\* keys are the ones it was made with (a key pair shares its data)
MadeFor(p, argv) ==
    LET c == argv[1].from
        made == c.data
        pad == argv[1].size - c.len
    IN
    /\ c.pos + c.len = c.size
    /\ pad = c.pos
    /\ CASE p = "crypto_box_open" ->
               /\ made.prim = "crypto_box"
               /\ pad = crypto_box_BOXZEROBYTES
               /\ made.ins[2] = InOf(argv[2])
               /\ made.ins[3][2] = argv[4].data
               /\ made.ins[4][2] = argv[3].data
         [] p = "crypto_secretbox_open" ->
               /\ made.prim = "crypto_secretbox"
               /\ pad = crypto_secretbox_BOXZEROBYTES
               /\ made.ins[2] = InOf(argv[2])
               /\ made.ins[3] = InOf(argv[3])
         [] p = "crypto_sign_open" ->
               /\ made.prim = "crypto_sign"
               /\ pad = 0
               /\ made.ins[2][2] = argv[2].data
         [] OTHER -> FALSE

\* whether the opening primitive p finds the bytes of argv[1] authentic under
\* the key at argv[key]
Authentic(p, argv, key) ==
    IF Built(argv[1]) THEN MadeFor(p, argv) ELSE argv[1].data = argv[key].data

\* the bytes an opening primitive writes for an authentic input: the bytes
\* the sealing primitive was given
Plain(in) == [prim |-> "plain", ins |-> <<in>>, rnd |-> 0, part |-> 1]

\* open primitives that do not reject a ciphertext shorter than the padding
PrimRCNoMin(p, argv) ==
    CASE p = "crypto_box_open" -> IF argv[1].data = argv[4].data THEN 0 ELSE -1
      [] p = "crypto_secretbox_open" -> IF argv[1].data = argv[3].data THEN 0 ELSE -1
      [] p = "crypto_sign_open" ->
            IF argv[1].size >= crypto_sign_BYTES /\ argv[1].data = argv[2].data
            THEN 0 ELSE -1
      [] p = "crypto_auth_verify" -> IF argv[1].data = argv[3].data THEN 0 ELSE -1
      [] p = "crypto_onetimeauth_verify" -> IF argv[1].data = argv[3].data THEN 0 ELSE -1
      [] p = "crypto_verify_16" -> IF argv[1].data = argv[2].data THEN 0 ELSE -1
      [] p = "crypto_verify_32" -> IF argv[1].data = argv[2].data THEN 0 ELSE -1
      [] OTHER -> 0

PrimRC(p, argv) ==
    CASE p = "crypto_box_open" ->
            IF argv[1].size >= crypto_box_ZEROBYTES /\ Authentic(p, argv, 4)
            THEN 0 ELSE -1
      [] p = "crypto_secretbox_open" ->
            IF argv[1].size >= crypto_secretbox_ZEROBYTES /\ Authentic(p, argv, 3)
            THEN 0 ELSE -1
      [] p = "crypto_sign_open" ->
            IF argv[1].size >= crypto_sign_BYTES /\ Authentic(p, argv, 2)
            THEN 0 ELSE -1
      [] p = "crypto_auth_verify" -> IF argv[1].data = argv[3].data THEN 0 ELSE -1
      [] p = "crypto_onetimeauth_verify" -> IF argv[1].data = argv[3].data THEN 0 ELSE -1
      [] p = "crypto_verify_16" -> IF argv[1].data = argv[2].data THEN 0 ELSE -1
      [] p = "crypto_verify_32" -> IF argv[1].data = argv[2].data THEN 0 ELSE -1
      [] OTHER -> 0

\* the length a primitive reports through its length pointer (smlen, mlen)
PrimLen(p, argv) ==
    CASE p = "crypto_sign" -> argv[1].size + crypto_sign_BYTES
      [] p = "crypto_sign_open" -> argv[1].size - crypto_sign_BYTES
      [] OTHER -> 0

\* the bytes a primitive writes to its k-th output buffer
PrimOut(p, argv, rnd, k) ==
    IF /\ p \in {"crypto_box_open", "crypto_secretbox_open", "crypto_sign_open"}
       /\ Built(argv[1])
       /\ PrimRC(p, argv) = 0
    THEN Plain(argv[1].from.data.ins[1])
    ELSE [prim |-> p,
          ins |-> [i \in 1..Len(argv) |-> InOf(argv[i])],
          rnd |-> rnd,
          part |-> k]

\* the primitives that draw from the library's random source
Randomized(p) == p \in {"crypto_box_keypair", "crypto_sign_keypair"}

\* the content of a binary no primitive has written yet
Uninit == [prim |-> "uninit", ins |-> <<>>, rnd |-> 0, part |-> 0]

(***************************************************************************)
(* Terms a call ends with.                                                 *)
(***************************************************************************)
ResultTerm(k, t, a, b, n) == [kind |-> k, term |-> t, atom |-> a, bins |-> b, int |-> n]

\* enif_make_badarg: the runtime raises badarg in the caller when the NIF returns
enif_make_badarg == ResultTerm("raise", "exception", "badarg", <<>>, 0)

\* a call of a name/arity the table does not register: the runtime raises undef
UndefError == ResultTerm("raise", "exception", "undef", <<>>, 0)

\* the error raised as an exception instead of returned as a tuple
nacl_error_raise(error_atom) == ResultTerm("raise", "exception", error_atom, <<>>, 0)

nacl_error_tuple(error_atom) == ResultTerm("return", "error", error_atom, <<>>, 0)

NoResult == ResultTerm("none", "none", "none", <<>>, 0)


(***************************************************************************)
(* State.                                                                  *)
(*   calls[c]  the call of caller process c:                               *)
(*     pc      idle, queued (for a dirty scheduler), check, alloc, exec,   *)
(*             ret, done                                                   *)
(*     name, argv   the entry called and its arguments                     *)
(*     thread  the scheduler thread running the handler: none, regular,    *)
(*             dirty                                                       *)
(*     bufs    the handler's local ErlNifBinary output buffers             *)
(*     allocs  the outcome of each enif_alloc_binary of the call           *)
(*     execs   how many times the primitive was called                     *)
(*     rnd     what the library's random source gave the call              *)
(*     rc      the primitive's return code                                 *)
(*     res     the term the call ended with                                *)
(*     results how many results the caller got for the call                *)
(*   heap[b]   buffer b: st (free, alloc, term), size, data                *)
(*   dirtyq    the calls waiting for a dirty CPU scheduler, in order       *)
(*   lib       the NIF library: called (sodium_init has run), sodium (what *)
(*             sodium_init returned), loaded (the runtime has taken the    *)
(*             library into service)                                       *)
(***************************************************************************)
VARIABLES calls, heap, dirtyq, lib

vars == <<calls, heap, dirtyq, lib>>

Calls == 1..MaxCalls

Bufs == 1..MaxBufs

IdleCall ==
    [pc |-> "idle", name |-> "none", argv |-> <<>>, thread |-> "none",
     bufs |-> <<>>, allocs |-> <<>>, execs |-> 0, rnd |-> 0, rc |-> 0,
     res |-> NoResult, results |-> 0]

FreeBuf == [st |-> "free", size |-> 0, data |-> Uninit]

\* the handler's plan for call record cl
PlanOf(cl) == Handler(Entry(cl.name).fptr, Len(cl.argv), cl.argv)

Busy(kind) == Cardinality({c \in Calls : calls[c].thread = kind})

\* one static buffer shared by every call instead of a binary of the call's own
AllocBufStatic(h) == 1

\* enif_alloc_binary: the buffer it hands out, one no one else holds
AllocBuf(h) == CHOOSE b \in Bufs : h[b].st = "free" /\ \A b2 \in Bufs : h[b2].st = "free" => b <= b2

\* the handler returns `term`: the caller gets it and the thread is free again
Finish(cl, term) ==
    [cl EXCEPT !.pc = "done", !.thread = "none", !.res = term,
               !.results = cl.results + 1]

\* the binary term made of buffer b: enif_make_binary / enif_make_sub_binary
BinOf(h, b, pos, len) == [data |-> h[b].data, size |-> h[b].size, pos |-> pos, len |-> len]

\* the term a handler builds once the primitive has run
RetTerm(plan, cl, h) ==
    CASE plan.ret = "binary" ->
            ResultTerm("return", "binary", "none",
                       <<BinOf(h, cl.bufs[1], 0, h[cl.bufs[1]].size)>>, 0)
      [] plan.ret = "sub" ->
            ResultTerm("return", "binary", "none",
                       <<BinOf(h, cl.bufs[1], plan.pos, plan.len)>>, 0)
      [] plan.ret = "sublen" ->
            ResultTerm("return", "binary", "none",
                       <<BinOf(h, cl.bufs[1], 0, PrimLen(plan.prim, cl.argv))>>, 0)
      [] plan.ret = "tuple2" ->
            ResultTerm("return", "tuple2", "none",
                       <<BinOf(h, cl.bufs[1], 0, h[cl.bufs[1]].size),
                         BinOf(h, cl.bufs[2], 0, h[cl.bufs[2]].size)>>, 0)
      [] plan.ret = "bool" ->
            ResultTerm("return", "atom", IF cl.rc = 0 THEN "true" ELSE "false", <<>>, 0)
      [] plan.ret = "int" ->
            ResultTerm("return", "int", "none", <<>>, plan.len)

(***************************************************************************)
(* Caller process c calls entry `name` with `argv`.  The runtime finds the *)
(* entry by name and arity; a regular entry runs on the caller's scheduler *)
(* thread, a dirty entry is queued for a dirty CPU scheduler.              *)
(***************************************************************************)
Invoke(c, name, argv) ==
    /\ lib.loaded
    /\ calls[c].pc = "idle"
    /\ Busy("regular") < MaxSchedulers
    /\ LET cl == [calls[c] EXCEPT !.name = name, !.argv = argv] IN
       IF Len(argv) # Entry(name).arity
       THEN /\ calls' = [calls EXCEPT ![c] = Finish(cl, UndefError)]
            /\ UNCHANGED dirtyq
       ELSE IF Entry(name).flags = ERL_NIF_DIRTY_JOB_CPU_BOUND
       THEN /\ calls' = [calls EXCEPT ![c] = [cl EXCEPT !.pc = "queued"]]
            /\ dirtyq' = Append(dirtyq, c)
       ELSE /\ calls' = [calls EXCEPT ![c] = [cl EXCEPT !.pc = "check", !.thread = "regular"]]
            /\ UNCHANGED dirtyq
    /\ UNCHANGED <<heap, lib>>

\* a free dirty CPU scheduler takes the first waiting call
DirtyPick(c) ==
    /\ dirtyq # <<>>
    /\ Head(dirtyq) = c
    /\ Busy("dirty") < MaxDirty
    /\ dirtyq' = Tail(dirtyq)
    /\ calls' = [calls EXCEPT ![c] = [@ EXCEPT !.pc = "check", !.thread = "dirty"]]
    /\ UNCHANGED <<heap, lib>>

\* the handler's argument inspection and size checks
Check(c) ==
    /\ calls[c].pc = "check"
    /\ LET plan == PlanOf(calls[c]) IN
       calls' = [calls EXCEPT ![c] =
                    IF plan.badarg THEN Finish(@, enif_make_badarg)
                    ELSE IF plan.alloc = <<>> THEN [@ EXCEPT !.pc = "exec"]
                    ELSE [@ EXCEPT !.pc = "alloc"]]
    /\ UNCHANGED <<heap, dirtyq, lib>>

\* a handler that tries the allocation again when it fails
AfterAllocFailedRetry(cl) == [cl EXCEPT !.pc = "alloc"]

\* a handler that loops on the allocation until it succeeds
AfterAllocFailedLoop(cl) ==
    [cl EXCEPT !.pc = "alloc", !.allocs = SubSeq(@, 1, Len(@) - 1)]

\* where a handler goes when enif_alloc_binary fails: it returns the error
AfterAllocFailed(cl) == Finish(cl, nacl_error_tuple("alloc_failed"))

\* the handler's next enif_alloc_binary: it succeeds or fails
Alloc(c) ==
    /\ calls[c].pc = "alloc"
    /\ LET plan == PlanOf(calls[c])
           k == Len(calls[c].bufs) + 1
       IN
       \/ /\ \E b \in Bufs : heap[b].st = "free"
          /\ LET b == AllocBuf(heap) IN
             /\ heap' = [heap EXCEPT ![b] =
                            [st |-> "alloc", size |-> plan.alloc[k], data |-> Uninit]]
             /\ calls' = [calls EXCEPT ![c] =
                            [@ EXCEPT !.bufs = Append(@, b),
                                      !.allocs = Append(@, TRUE),
                                      !.pc = IF k = Len(plan.alloc) THEN "exec" ELSE "alloc"]]
       \/ /\ calls' = [calls EXCEPT ![c] =
                          AfterAllocFailed([@ EXCEPT !.allocs = Append(@, FALSE)])]
          /\ UNCHANGED heap
    /\ UNCHANGED <<dirtyq, lib>>

\* the handler calls the primitive, which writes the output buffers
Exec(c) ==
    /\ calls[c].pc = "exec"
    /\ LET plan == PlanOf(calls[c])
           cl == calls[c]
       IN
       \E r \in (IF Randomized(plan.prim) THEN {0, 1} ELSE {0}) :
          /\ heap' = [b \in Bufs |->
                        IF \E k \in 1..Len(cl.bufs) : cl.bufs[k] = b
                        THEN [heap[b] EXCEPT !.data =
                                PrimOut(plan.prim, cl.argv, r,
                                        CHOOSE k \in 1..Len(cl.bufs) : cl.bufs[k] = b)]
                        ELSE heap[b]]
          /\ calls' = [calls EXCEPT ![c] =
                          [@ EXCEPT !.pc = "ret", !.rnd = r,
                                    !.execs = IF plan.prim = "none" THEN @ ELSE @ + 1,
                                    !.rc = PrimRC(plan.prim, cl.argv)]]
    /\ UNCHANGED <<dirtyq, lib>>

\* a handler that does not test the primitive's return code
FailedVerificationIgnored(plan, rc) == FALSE

\* whether the handler takes the primitive's return code for a failed verification
FailedVerification(plan, rc) == plan.checked /\ rc # 0

\* an error tuple that carries the binary the primitive was writing
FailedVerificationTermPartial(cl, h) ==
    ResultTerm("return", "error", "failed_verification",
               <<BinOf(h, cl.bufs[1], 0, h[cl.bufs[1]].size)>>, 0)

\* what a handler returns for a failed verification: the bare error tuple
FailedVerificationTerm(cl, h) == nacl_error_tuple("failed_verification")

\* the handler builds its term and returns
Ret(c) ==
    /\ calls[c].pc = "ret"
    /\ LET plan == PlanOf(calls[c])
           cl == calls[c]
           mine == {cl.bufs[k] : k \in 1..Len(cl.bufs)}
       IN
       IF FailedVerification(plan, cl.rc)
       THEN \* enif_release_binary, then the error tuple
            /\ heap' = [b \in Bufs |-> IF b \in mine THEN FreeBuf ELSE heap[b]]
            /\ calls' = [calls EXCEPT ![c] = Finish(@, FailedVerificationTerm(cl, heap))]
       ELSE \* enif_make_binary hands each buffer over to the term
            /\ heap' = [b \in Bufs |->
                          IF b \in mine THEN [heap[b] EXCEPT !.st = "term"] ELSE heap[b]]
            /\ calls' = [calls EXCEPT ![c] = Finish(@, RetTerm(plan, cl, heap))]
    /\ UNCHANGED <<dirtyq, lib>>

\* the caller has taken the result; the binaries of the term are collected
Collect(c) ==
    /\ calls[c].pc = "done"
    /\ LET cl == calls[c]
           mine == {cl.bufs[k] : k \in 1..Len(cl.bufs)}
       IN
       heap' = [b \in Bufs |->
                  IF b \in mine /\ heap[b].st = "term" THEN FreeBuf ELSE heap[b]]
    /\ calls' = [calls EXCEPT ![c] = IdleCall]
    /\ UNCHANGED <<dirtyq, lib>>

\* what sodium_init may return: 0 (initialised) or -1 (it failed)
SodiumInitRC == {0, -1}

\* enif_crypto_load: calls sodium_init, drops what it returns, and returns 0
enif_crypto_load(sodium_rc) == 0

\* the library as it is before the runtime loads it
Unloaded == [called |-> FALSE, sodium |-> 0, loaded |-> FALSE]

\* the runtime loads the library: it runs enif_crypto_load and takes the
\* library into service iff that returns 0
Load ==
    /\ ~lib.called
    /\ \E rc \in SodiumInitRC :
          lib' = [called |-> TRUE, sodium |-> rc, loaded |-> (enif_crypto_load(rc) = 0)]
    /\ UNCHANGED <<calls, heap, dirtyq>>

\* the library loaded, libsodium initialised, no call in flight
Init ==
    /\ calls = [c \in Calls |-> IdleCall]
    /\ heap = [b \in Bufs |-> FreeBuf]
    /\ dirtyq = <<>>
    /\ lib = [called |-> TRUE, sodium |-> 0, loaded |-> TRUE]


(***************************************************************************)
(* What callers pass.  Param(type, rel, n) states what an entry expects of *)
(* one argument: an iolist, a binary or an unsigned integer, of any size,  *)
(* of exactly n bytes or of at least n bytes.                              *)
(***************************************************************************)
Param(t, r, n) == [type |-> t, rel |-> r, n |-> n]

Contract(name) ==
    CASE name \in {"crypto_hash", "crypto_hash_b"} ->
            <<Param("iolist", "any", 0)>>
      [] name = "crypto_verify_16" ->
            <<Param("binary", "eq", 16), Param("binary", "eq", 16)>>
      [] name = "crypto_verify_32" ->
            <<Param("binary", "eq", 32), Param("binary", "eq", 32)>>
      [] name \in {"crypto_box", "crypto_box_b"} ->
            <<Param("iolist", "min", crypto_box_ZEROBYTES),
              Param("binary", "eq", crypto_box_NONCEBYTES),
              Param("binary", "eq", crypto_box_PUBLICKEYBYTES),
              Param("binary", "eq", crypto_box_SECRETKEYBYTES)>>
      [] name \in {"crypto_box_open", "crypto_box_open_b"} ->
            <<Param("iolist", "min", crypto_box_BOXZEROBYTES),
              Param("binary", "eq", crypto_box_NONCEBYTES),
              Param("binary", "eq", crypto_box_PUBLICKEYBYTES),
              Param("binary", "eq", crypto_box_SECRETKEYBYTES)>>
      [] name \in {"crypto_sign", "crypto_sign_b"} ->
            <<Param("iolist", "any", 0),
              Param("binary", "eq", crypto_sign_SECRETKEYBYTES)>>
      [] name \in {"crypto_sign_open", "crypto_sign_open_b"} ->
            <<Param("iolist", "any", 0),
              Param("binary", "eq", crypto_sign_PUBLICKEYBYTES)>>
      [] name \in {"crypto_secretbox", "crypto_secretbox_b"} ->
            <<Param("iolist", "min", crypto_secretbox_ZEROBYTES),
              Param("binary", "eq", crypto_secretbox_NONCEBYTES),
              Param("binary", "eq", crypto_secretbox_KEYBYTES)>>
      [] name \in {"crypto_secretbox_open", "crypto_secretbox_open_b"} ->
            <<Param("iolist", "min", crypto_secretbox_BOXZEROBYTES),
              Param("binary", "eq", crypto_secretbox_NONCEBYTES),
              Param("binary", "eq", crypto_secretbox_KEYBYTES)>>
      [] name \in {"crypto_stream", "crypto_stream_b"} ->
            <<Param("uint", "any", 0),
              Param("binary", "eq", crypto_stream_NONCEBYTES),
              Param("binary", "eq", crypto_stream_KEYBYTES)>>
      [] name \in {"crypto_stream_xor", "crypto_stream_xor_b"} ->
            <<Param("iolist", "any", 0),
              Param("binary", "eq", crypto_stream_NONCEBYTES),
              Param("binary", "eq", crypto_stream_KEYBYTES)>>
      [] name \in {"crypto_auth", "crypto_auth_b"} ->
            <<Param("iolist", "any", 0),
              Param("binary", "eq", crypto_auth_KEYBYTES)>>
      [] name \in {"crypto_auth_verify", "crypto_auth_verify_b"} ->
            <<Param("binary", "eq", crypto_auth_BYTES),
              Param("iolist", "any", 0),
              Param("binary", "eq", crypto_auth_KEYBYTES)>>
      [] name \in {"crypto_onetimeauth", "crypto_onetimeauth_b"} ->
            <<Param("iolist", "any", 0),
              Param("binary", "eq", crypto_onetimeauth_KEYBYTES)>>
      [] name \in {"crypto_onetimeauth_verify", "crypto_onetimeauth_verify_b"} ->
            <<Param("binary", "eq", crypto_onetimeauth_BYTES),
              Param("iolist", "any", 0),
              Param("binary", "eq", crypto_onetimeauth_KEYBYTES)>>
      [] OTHER -> <<>>

\* whether term t is what parameter p expects
Conforms(t, p) ==
    /\ CASE p.type = "iolist" -> t.kind \in {"binary", "iolist"}
         [] p.type = "binary" -> t.kind = "binary"
         [] p.type = "uint" -> t.kind = "integer" /\ t.size >= 0
    /\ CASE p.rel = "any" -> TRUE
         [] p.rel = "eq" -> t.size = p.n
         [] p.rel = "min" -> t.size >= p.n

WellFormed(name, argv) ==
    /\ Len(argv) = Len(Contract(name))
    /\ \A i \in 1..Len(argv) : Conforms(argv[i], Contract(name)[i])

\* the sizes of the messages and ciphertexts callers pass
MsgSizes == {0, 15, 16, 31, 32, 63, 64, 100}

\* the terms a caller may pass for parameter p: right ones and wrong ones
Choices(p) ==
    CASE p.type = "iolist" ->
            {Term(k, n, d) : k \in {"binary", "iolist"}, n \in MsgSizes, d \in {0, 1}}
            \cup {Term("atom", 0, 0), Term("integer", 40, 0)}
      [] p.type = "binary" ->
            {Term("binary", p.n - 1, 0), Term("binary", p.n, 0), Term("binary", p.n, 1),
             Term("binary", p.n + 1, 0), Term("iolist", p.n, 0), Term("atom", 0, 0)}
      [] p.type = "uint" ->
            {Term("integer", 0, 0), Term("integer", 40, 0), Term("binary", 8, 0),
             Term("atom", 0, 0)}

\* the argument lists of the right length
ArgvOfArity(ps) ==
    CASE Len(ps) = 0 -> {<<>>}
      [] Len(ps) = 1 -> {<<a>> : a \in Choices(ps[1])}
      [] Len(ps) = 2 -> {<<a, b>> : a \in Choices(ps[1]), b \in Choices(ps[2])}
      [] Len(ps) = 3 -> {<<a, b, c>> : a \in Choices(ps[1]), b \in Choices(ps[2]),
                                       c \in Choices(ps[3])}
      [] Len(ps) = 4 -> {<<a, b, c, d>> : a \in Choices(ps[1]), b \in Choices(ps[2]),
                                          c \in Choices(ps[3]), d \in Choices(ps[4])}

\* a well-formed argument list of the entry
GoodArgv(name) ==
    [i \in 1..Len(Contract(name)) |->
        LET p == Contract(name)[i] IN
        CASE p.type = "uint" -> Term("integer", 40, 0)
          [] p.rel = "eq" -> Term("binary", p.n, 0)
          [] OTHER -> Term("binary", 100, 0)]

\* every argument list a caller tries on an entry, also of the wrong length
ArgvChoices(name) ==
    ArgvOfArity(Contract(name))
    \cup {Append(GoodArgv(name), Term("atom", 0, 0))}
    \cup (IF Contract(name) = <<>> THEN {}
          ELSE {SubSeq(GoodArgv(name), 1, Len(Contract(name)) - 1)})

(***************************************************************************)
(* Spec: one caller, every entry, every argument list of ArgvChoices.      *)
(***************************************************************************)
Next ==
    \/ /\ calls[1].pc = "idle"
       /\ \E name \in EntryNames : \E argv \in ArgvChoices(name) : Invoke(1, name, argv)
    \/ DirtyPick(1)
    \/ Check(1)
    \/ Alloc(1)
    \/ Exec(1)
    \/ Ret(1)
    \/ Collect(1)

Spec == Init /\ [][Next]_vars


(***************************************************************************)
(* SpecPair: the same argument list is passed to the _b entry of a         *)
(* primitive (call 1) and to its unsuffixed entry (call 2).                *)
(***************************************************************************)
DualPairs ==
    {<<"crypto_box_b", "crypto_box">>,
     <<"crypto_box_open_b", "crypto_box_open">>,
     <<"crypto_sign_b", "crypto_sign">>,
     <<"crypto_sign_open_b", "crypto_sign_open">>,
     <<"crypto_secretbox_b", "crypto_secretbox">>,
     <<"crypto_secretbox_open_b", "crypto_secretbox_open">>,
     <<"crypto_stream_b", "crypto_stream">>,
     <<"crypto_stream_xor_b", "crypto_stream_xor">>,
     <<"crypto_auth_b", "crypto_auth">>,
     <<"crypto_auth_verify_b", "crypto_auth_verify">>,
     <<"crypto_onetimeauth_b", "crypto_onetimeauth">>,
     <<"crypto_onetimeauth_verify_b", "crypto_onetimeauth_verify">>,
     <<"crypto_hash_b", "crypto_hash">>}

NextPair ==
    \/ /\ calls[1].pc = "idle"
       /\ calls[2].pc = "idle"
       /\ \E pr \in DualPairs : \E argv \in ArgvChoices(pr[1]) : Invoke(1, pr[1], argv)
    \/ /\ calls[1].pc # "idle"
       /\ calls[2].pc = "idle"
       /\ \E pr \in DualPairs : pr[1] = calls[1].name /\ Invoke(2, pr[2], calls[1].argv)
    \/ \E c \in {1, 2} : DirtyPick(c)
    \/ \E c \in {1, 2} : Check(c)
    \/ \E c \in {1, 2} : Alloc(c)
    \/ \E c \in {1, 2} : Exec(c)
    \/ \E c \in {1, 2} : Ret(c)
    \/ /\ calls[2].pc = "done"
       /\ Collect(1)
    \/ /\ calls[1].pc = "idle"
       /\ Collect(2)

SpecPair == Init /\ [][NextPair]_vars

(***************************************************************************)
(* SpecConc: MaxCalls callers at once, on MaxSchedulers regular and        *)
(* MaxDirty dirty scheduler threads.  A scheduler thread runs its handler  *)
(* on, and a free dirty scheduler takes the first waiting call.            *)
(***************************************************************************)
ConcNames ==
    {"crypto_hash", "crypto_hash_b", "crypto_secretbox_open", "crypto_box_keypair"}

\* binaries only; keys and nonces of the right size; messages of 100 bytes,
\* and one of 15 bytes, too short for secretbox_open
ConcArgv(name) ==
    {argv \in ArgvOfArity(Contract(name)) :
        \A i \in 1..Len(argv) :
            /\ argv[i].kind = "binary"
            /\ IF Contract(name)[i].rel = "eq"
               THEN argv[i].size = Contract(name)[i].n /\ argv[i].data = 0
               ELSE \/ argv[i].size = 100
                    \/ argv[i].size = 15 /\ argv[i].data = 0}

NextConc ==
    \/ \E c \in Calls :
          /\ calls[c].pc = "idle"
          /\ \E name \in ConcNames : \E argv \in ConcArgv(name) : Invoke(c, name, argv)
    \/ \E c \in Calls : DirtyPick(c)
    \/ \E c \in Calls : Check(c)
    \/ \E c \in Calls : Alloc(c)
    \/ \E c \in Calls : Exec(c)
    \/ \E c \in Calls : Ret(c)
    \/ \E c \in Calls : Collect(c)

Fairness ==
    \A c \in Calls :
        /\ WF_vars(DirtyPick(c))
        /\ WF_vars(Check(c))
        /\ WF_vars(Alloc(c))
        /\ WF_vars(Exec(c))
        /\ WF_vars(Ret(c))

SpecConc == Init /\ [][NextConc]_vars /\ Fairness

(***************************************************************************)
(* Properties.                                                             *)
(***************************************************************************)
\* the handler of call c is running on a scheduler thread
Running(c) == calls[c].pc \in {"check", "alloc", "exec", "ret"}

Done(c) == calls[c].pc = "done"

\* some enif_alloc_binary of the call failed
AllocFailed(cl) == \E k \in 1..Len(cl.allocs) : ~cl.allocs[k]

\* C1: a call that violates its entry's contract (wrong arity, an argument
\* of the wrong type, a key, nonce or authenticator of the wrong size, a
\* padded message or ciphertext below the minimum) is rejected before any
\* execution attempt: it never allocates, never calls the primitive, and
\* ends with the badarg (or, for a wrong arity, undef) rejection.
C1_RejectedBeforeExecution ==
    \A c \in Calls :
        (calls[c].pc # "idle" /\ ~WellFormed(calls[c].name, calls[c].argv)) =>
            /\ calls[c].allocs = <<>>
            /\ calls[c].bufs = <<>>
            /\ calls[c].execs = 0
            /\ calls[c].pc \in {"queued", "check", "done"}
            /\ Done(c) => /\ calls[c].res.kind = "raise"
                          /\ calls[c].res.atom \in {"badarg", "undef"}

\* a secretbox_open whose padded ciphertext is below the minimum was rejected
C1_Witness ==
    \E c \in Calls :
        /\ Done(c)
        /\ calls[c].name = "crypto_secretbox_open"
        /\ Len(calls[c].argv) = 3
        /\ calls[c].argv[1].kind = "binary"
        /\ calls[c].argv[1].size < crypto_secretbox_BOXZEROBYTES
        /\ Conforms(calls[c].argv[2], Contract(calls[c].name)[2])
        /\ Conforms(calls[c].argv[3], Contract(calls[c].name)[3])
        /\ calls[c].res = enif_make_badarg

(***************************************************************************)
(* The cost model of the design: estimate = fixed_cost + per_byte_cost *   *)
(* input_length, run inline iff the estimate is at most the threshold.     *)
(***************************************************************************)
fixed_cost == 10

per_byte_cost == 1

BreakoffThreshold == 60

estimate(input_length) == fixed_cost + per_byte_cost * input_length

classify(cost_units) == IF cost_units <= BreakoffThreshold THEN "Inline" ELSE "Offload"

\* the length of the input a call's cost grows with
InputLength(name, argv) ==
    LET ps == Contract(name)
        var == {i \in 1..Len(ps) : ps[i].type \in {"iolist", "uint"}}
    IN IF var = {} THEN 0 ELSE argv[CHOOSE i \in var : TRUE].size

\* the entries registered as dirty jobs: the unsuffixed name of each pair
DirtyNames ==
    {"crypto_box", "crypto_box_open", "crypto_sign", "crypto_sign_open",
     "crypto_secretbox", "crypto_secretbox_open", "crypto_stream",
     "crypto_stream_xor", "crypto_auth", "crypto_auth_verify",
     "crypto_onetimeauth", "crypto_onetimeauth_verify", "crypto_hash"}

OpenNames ==
    {"crypto_box_open", "crypto_box_open_b", "crypto_sign_open", "crypto_sign_open_b",
     "crypto_secretbox_open", "crypto_secretbox_open_b"}

\* C4: a well-formed box_open, secretbox_open or sign_open that the
\* primitive rejects returns {error, failed_verification}: a returned
\* value, not a success, not badarg, not alloc_failed.
C4_FailedVerification ==
    \A c \in Calls :
        (/\ Done(c)
         /\ calls[c].name \in OpenNames
         /\ WellFormed(calls[c].name, calls[c].argv)
         /\ calls[c].execs = 1
         /\ calls[c].rc # 0) =>
            /\ calls[c].res = ResultTerm("return", "error", "failed_verification", <<>>, 0)
            /\ calls[c].res.kind # "raise"
            /\ calls[c].res.term # "binary"
            /\ calls[c].res.atom \notin {"badarg", "alloc_failed"}
            /\ calls[c].thread = "none"

\* secretbox_open of a ciphertext of the right shape under the wrong key
C4_Witness ==
    \E c \in Calls :
        /\ Done(c)
        /\ calls[c].name = "crypto_secretbox_open"
        /\ WellFormed(calls[c].name, calls[c].argv)
        /\ calls[c].argv[1].size = 100
        /\ calls[c].argv[1].data # calls[c].argv[3].data
        /\ calls[c].res.atom = "failed_verification"

\* C5 as stated: no leaks: every allocated buffer is held by a handler
\* that is still running; once a call has returned, each buffer it
\* allocated was handed over to the returned term or released.
C5_NoLeaks ==
    \A b \in Bufs :
        heap[b].st = "alloc" =>
            \E c \in Calls :
                /\ Running(c)
                /\ \E k \in 1..Len(calls[c].bufs) : calls[c].bufs[k] = b

\* C8 as stated: every failure of a call (contract violation, allocation
\* failure, verification failure) comes back as a returned value, none is
\* raised as an exception.
C8_AllFailuresReturned ==
    \A c \in Calls :
        (Done(c) /\ calls[c].res.atom \in
                        {"badarg", "alloc_failed", "failed_verification"}) =>
            calls[c].res.kind = "return"

\* C8 amended: an allocation failure and a verification failure come back
\* as the returned value {error, Reason}; a contract violation is raised
\* in the caller as a badarg exception (undef for an unregistered arity);
\* in each case the handler has returned and holds no thread.
C8_FailuresReturnedOrBadarg ==
    \A c \in Calls :
        Done(c) =>
            /\ calls[c].thread = "none"
            /\ calls[c].results = 1
            /\ AllocFailed(calls[c]) =>
                  /\ calls[c].res.kind = "return"
                  /\ calls[c].res.term = "error"
                  /\ calls[c].res.atom = "alloc_failed"
            /\ (~AllocFailed(calls[c]) /\ calls[c].execs = 1 /\ calls[c].rc # 0
                    /\ calls[c].name \in OpenNames) =>
                  /\ calls[c].res.kind = "return"
                  /\ calls[c].res.term = "error"
                  /\ calls[c].res.atom = "failed_verification"
            /\ ~WellFormed(calls[c].name, calls[c].argv) =>
                  /\ calls[c].res.kind = "raise"
                  /\ calls[c].res.atom \in {"badarg", "undef"}
            /\ calls[c].res.kind = "raise" => ~WellFormed(calls[c].name, calls[c].argv)

\* a failed allocation came back as a value, and a bad argument was raised
C8_Witness ==
    \E c \in Calls :
        /\ Done(c)
        /\ calls[c].name = "crypto_sign_b"
        /\ AllocFailed(calls[c])
        /\ calls[c].res = ResultTerm("return", "error", "alloc_failed", <<>>, 0)

\* C9: when an enif_alloc_binary fails the call ends at once with
\* {error, alloc_failed}: the primitive is not called and no allocation
\* is attempted after the failed one.
C9_AllocFailed ==
    \A c \in Calls :
        AllocFailed(calls[c]) =>
            /\ Done(c)
            /\ calls[c].res = ResultTerm("return", "error", "alloc_failed", <<>>, 0)
            /\ calls[c].res.atom \notin {"badarg", "failed_verification"}
            /\ calls[c].execs = 0
            /\ \A k \in 1..Len(calls[c].allocs) :
                  ~calls[c].allocs[k] => k = Len(calls[c].allocs)

\* crypto_stream whose output buffer could not be allocated
C9_Witness ==
    \E c \in Calls :
        /\ Done(c)
        /\ calls[c].name = "crypto_stream"
        /\ calls[c].allocs = <<FALSE>>
        /\ calls[c].res.atom = "alloc_failed"


\* C2: the _b entry and the unsuffixed entry of a primitive, called with the
\* same arguments (and meeting the same allocation outcomes), end with the
\* same term: the same output bytes or the same failure.
C2_SameResultOnBothPaths ==
    \A c1, c2 \in Calls :
        (/\ Done(c1)
         /\ Done(c2)
         /\ <<calls[c1].name, calls[c2].name>> \in DualPairs
         /\ calls[c1].argv = calls[c2].argv
         /\ calls[c1].allocs = calls[c2].allocs
         /\ calls[c1].rnd = calls[c2].rnd) =>
            calls[c1].res = calls[c2].res

\* secretbox sealed the same message inline and on a dirty scheduler
C2_Witness ==
    /\ Done(1)
    /\ Done(2)
    /\ calls[1].name = "crypto_secretbox_b"
    /\ calls[2].name = "crypto_secretbox"
    /\ calls[1].argv = calls[2].argv
    /\ calls[1].res.term = "binary"
    /\ calls[2].res.term = "binary"
    /\ calls[1].res = calls[2].res

\* C6: a call submitted through a dirty entry yields exactly one result to
\* its caller: never two, and eventually one.
C6_ExactlyOneResult ==
    \A c \in Calls :
        /\ [](/\ calls[c].results <= 1
              /\ Done(c) => calls[c].results = 1
              /\ (calls[c].pc = "queued" \/ Running(c)) => calls[c].results = 0)
        /\ (calls[c].pc = "queued") ~> (Done(c) /\ calls[c].results = 1)

\* a call through a dirty entry that waited in the queue has its one result
C6_Witness ==
    \E c \in Calls :
        /\ Done(c)
        /\ calls[c].name = "crypto_secretbox_open"
        /\ Entry(calls[c].name).flags = ERL_NIF_DIRTY_JOB_CPU_BOUND
        /\ calls[c].results = 1
        /\ calls[c].res.term = "binary"

\* the term call cl ends with when it runs alone, on memory of its own
Alone(cl) ==
    IF Len(cl.argv) # Len(Contract(cl.name)) THEN UndefError
    ELSE LET plan == PlanOf(cl)
             n == Len(plan.alloc)
             own == [b \in 1..n |->
                        [st |-> "alloc", size |-> plan.alloc[b],
                         data |-> PrimOut(plan.prim, cl.argv, cl.rnd, b)]]
         IN IF plan.badarg THEN ResultTerm("raise", "exception", "badarg", <<>>, 0)
            ELSE IF AllocFailed(cl)
            THEN ResultTerm("return", "error", "alloc_failed", <<>>, 0)
            ELSE IF plan.checked /\ PrimRC(plan.prim, cl.argv) # 0
            THEN ResultTerm("return", "error", "failed_verification", <<>>, 0)
            ELSE RetTerm(plan,
                         [cl EXCEPT !.bufs = [b \in 1..n |-> b],
                                    !.rc = PrimRC(plan.prim, cl.argv)],
                         own)

\* C7: calls run concurrently do not corrupt each other's buffers: no
\* buffer is held by two running handlers, and each call ends with the
\* term it ends with when run alone.
C7_AsIfAlone ==
    /\ \A c \in Calls : Done(c) => calls[c].res = Alone(calls[c])
    /\ \A c1, c2 \in Calls :
          (c1 # c2 /\ Running(c1) /\ Running(c2)) =>
              \A k1 \in 1..Len(calls[c1].bufs) : \A k2 \in 1..Len(calls[c2].bufs) :
                  calls[c1].bufs[k1] # calls[c2].bufs[k2]

\* a hash has ended with its digest while another call's primitive had
\* written its own buffer
C7_Witness ==
    \E c1, c2 \in Calls :
        /\ c1 # c2
        /\ Done(c1)
        /\ calls[c1].name = "crypto_hash"
        /\ calls[c1].res.term = "binary"
        /\ calls[c2].pc = "ret"
        /\ calls[c2].name = "crypto_hash_b"
        /\ calls[c2].argv # calls[c1].argv

\* the entries whose running time grows with an input
InputDependent(name) ==
    \E i \in 1..Len(Contract(name)) : Contract(name)[i].type \in {"iolist", "uint"}

OpenSizes == {16, 31, 32, 100}

OpenArgv(name) ==
    {argv \in ArgvOfArity(Contract(name)) :
        /\ WellFormed(name, argv)
        /\ argv[1].size \in OpenSizes
        /\ argv[2].data = 0 \/ Len(argv) = 2
        /\ \A i \in 1..Len(argv) : argv[i].kind = "binary"}

NextOpen ==
    \/ /\ calls[1].pc = "idle"
       /\ calls[2].pc = "idle"
       /\ \E name \in OpenNames : \E argv \in OpenArgv(name) : Invoke(1, name, argv)
    \/ /\ calls[1].pc = "done"
       /\ calls[2].pc = "idle"
       /\ \E name \in OpenNames : \E argv \in OpenArgv(name) : Invoke(2, name, argv)
    \/ \E c \in {1, 2} : DirtyPick(c)
    \/ \E c \in {1, 2} : Check(c)
    \/ \E c \in {1, 2} : Alloc(c)
    \/ \E c \in {1, 2} : Exec(c)
    \/ \E c \in {1, 2} : Ret(c)
    \/ /\ calls[2].pc = "done"
       /\ Collect(1)
    \/ /\ calls[1].pc = "idle"
       /\ Collect(2)

SpecOpen == Init /\ [][NextOpen]_vars

\* the call was well-formed, reached the primitive, and the primitive rejected it
FailedOpen(c) ==
    /\ Done(c)
    /\ calls[c].name \in OpenNames
    /\ WellFormed(calls[c].name, calls[c].argv)
    /\ calls[c].execs = 1
    /\ calls[c].rc # 0

\* C11: any two well-formed calls of box_open, secretbox_open or sign_open
\* that fail verification end with the identical term, the constant
\* {error, failed_verification}, whatever the ciphertext, nonce and key and
\* whatever made the primitive reject; the term holds no binary, so nothing
\* of the output buffer the primitive was writing comes back.
C11_NoReasonInFailure ==
    \A c1, c2 \in Calls :
        (FailedOpen(c1) /\ FailedOpen(c2)) =>
            /\ calls[c1].res = calls[c2].res
            /\ calls[c1].res = ResultTerm("return", "error", "failed_verification", <<>>, 0)
            /\ calls[c1].res.bins = <<>>

\* a box_open of a ciphertext too short for an authenticator and a sign_open
\* of a message signed under another key have both failed
C11_Witness ==
    /\ FailedOpen(1)
    /\ FailedOpen(2)
    /\ calls[1].name = "crypto_box_open"
    /\ calls[1].argv[1].size = 31
    /\ calls[2].name = "crypto_sign_open_b"
    /\ calls[2].argv[1].size = 100
    /\ calls[2].argv[1].data # calls[2].argv[2].data
    /\ calls[1].res = calls[2].res


(***************************************************************************)
(* SpecLoad: the runtime loads the library, then one caller uses it.       *)
(***************************************************************************)
InitLoad ==
    /\ calls = [c \in Calls |-> IdleCall]
    /\ heap = [b \in Bufs |-> FreeBuf]
    /\ dirtyq = <<>>
    /\ lib = Unloaded

LoadNames == {"crypto_hash", "crypto_hash_b", "crypto_box_keypair", "crypto_secretbox_open"}

NextLoad ==
    \/ Load
    \/ /\ calls[1].pc = "idle"
       /\ \E name \in LoadNames : \E argv \in ArgvChoices(name) : Invoke(1, name, argv)
    \/ DirtyPick(1)
    \/ Check(1)
    \/ Alloc(1)
    \/ Exec(1)
    \/ Ret(1)
    \/ Collect(1)

SpecLoad == InitLoad /\ [][NextLoad]_vars

\* C12 as stated: when load-time setup fails (here: sodium_init fails) the
\* load reports failure, the library is not taken into service, and no
\* call is served afterwards: none is queued, checked or executed.
C12_FailedLoadIsFatal ==
    (lib.called /\ lib.sodium # 0) =>
        /\ ~lib.loaded
        /\ \A c \in Calls : calls[c].pc = "idle" /\ calls[c].execs = 0


\* the padding an opening entry strips from the front of what it opened
ZeroBytesOf(name) ==
    IF name \in {"crypto_box_open", "crypto_box_open_b"}
    THEN crypto_box_ZEROBYTES
    ELSE crypto_secretbox_ZEROBYTES

BoxOpenNames ==
    {"crypto_box_open", "crypto_box_open_b", "crypto_secretbox_open", "crypto_secretbox_open_b"}

SealNames ==
    {"crypto_secretbox", "crypto_secretbox_b", "crypto_box", "crypto_box_b",
     "crypto_sign", "crypto_sign_b"}

OpenerOf(name) ==
    CASE name = "crypto_secretbox" -> "crypto_secretbox_open"
      [] name = "crypto_secretbox_b" -> "crypto_secretbox_open_b"
      [] name = "crypto_box" -> "crypto_box_open"
      [] name = "crypto_box_b" -> "crypto_box_open_b"
      [] name = "crypto_sign" -> "crypto_sign_open"
      [] name = "crypto_sign_b" -> "crypto_sign_open_b"

RoundSizes == {0, 32, 63, 100}

\* well-formed argument lists of a sealing entry, binaries only
SealArgv(name) ==
    {argv \in ArgvOfArity(Contract(name)) :
        /\ WellFormed(name, argv)
        /\ argv[1].size \in RoundSizes
        /\ \A i \in 1..Len(argv) : argv[i].kind = "binary"}

\* the zero bytes a caller puts in front of a sealed value before opening it
PadOf(name) ==
    CASE name \in {"crypto_secretbox", "crypto_secretbox_b"} -> crypto_secretbox_BOXZEROBYTES
      [] name \in {"crypto_box", "crypto_box_b"} -> crypto_box_BOXZEROBYTES
      [] OTHER -> 0

\* the zero bytes in front of the message in what the sealing entry is given
MsgPadOf(name) ==
    CASE name \in {"crypto_secretbox", "crypto_secretbox_b"} -> crypto_secretbox_ZEROBYTES
      [] name \in {"crypto_box", "crypto_box_b"} -> crypto_box_ZEROBYTES
      [] OTHER -> 0

\* the argument lists with which the result of sealing call cl is opened
RoundArgv(cl) ==
    LET c == Repad(PadOf(cl.name), cl.res.bins[1]) IN
    CASE cl.name \in {"crypto_secretbox", "crypto_secretbox_b"} ->
            {<<c, cl.argv[2], Term("binary", crypto_secretbox_KEYBYTES, d)>> : d \in {0, 1}}
      [] cl.name \in {"crypto_box", "crypto_box_b"} ->
            {<<c, cl.argv[2], Term("binary", crypto_box_PUBLICKEYBYTES, d1),
               Term("binary", crypto_box_SECRETKEYBYTES, d2)>> : d1 \in {0, 1}, d2 \in {0, 1}}
      [] cl.name \in {"crypto_sign", "crypto_sign_b"} ->
            {<<c, Term("binary", crypto_sign_PUBLICKEYBYTES, d)>> : d \in {0, 1}}

\* call op opens the result of call cl with the keys that go with cl's keys
KeysMatch(cl, op) ==
    CASE cl.name \in {"crypto_secretbox", "crypto_secretbox_b"} ->
            op.argv[3] = cl.argv[3]
      [] cl.name \in {"crypto_box", "crypto_box_b"} ->
            op.argv[3].data = cl.argv[4].data /\ op.argv[4].data = cl.argv[3].data
      [] cl.name \in {"crypto_sign", "crypto_sign_b"} ->
            op.argv[2].data = cl.argv[2].data

NextRound ==
    \/ /\ calls[1].pc = "idle"
       /\ calls[2].pc = "idle"
       /\ \E name \in SealNames : \E argv \in SealArgv(name) : Invoke(1, name, argv)
    \/ /\ calls[1].pc = "done"
       /\ calls[1].res.term = "binary"
       /\ calls[2].pc = "idle"
       /\ \E argv \in RoundArgv(calls[1]) : Invoke(2, OpenerOf(calls[1].name), argv)
    \/ \E c \in {1, 2} : DirtyPick(c)
    \/ \E c \in {1, 2} : Check(c)
    \/ \E c \in {1, 2} : Alloc(c)
    \/ \E c \in {1, 2} : Exec(c)
    \/ \E c \in {1, 2} : Ret(c)
    \/ /\ calls[2].pc = "done" \/ calls[1].res.term # "binary"
       /\ Collect(1)
    \/ /\ calls[1].pc = "idle"
       /\ Collect(2)

SpecRound == Init /\ [][NextRound]_vars

\* call 2 has opened, with the matching keys, what call 1 sealed
RoundTripDone ==
    /\ Done(1)
    /\ Done(2)
    /\ calls[1].name \in SealNames
    /\ calls[1].res.term = "binary"
    /\ calls[2].name = OpenerOf(calls[1].name)
    /\ calls[2].argv[1] = Repad(PadOf(calls[1].name), calls[1].res.bins[1])
    /\ KeysMatch(calls[1], calls[2])
    /\ ~AllocFailed(calls[2])

\* C14: given the round-trip contract of the primitives, opening what was
\* sealed gives back exactly the message: secretbox and box return
\* |m| + ZEROBYTES - BOXZEROBYTES bytes; opening them behind BOXZEROBYTES
\* zero bytes, with the same nonce and the matching keys, returns the |m|
\* bytes of m (the opened bytes from ZEROBYTES on); sign returns
\* |m| + crypto_sign_BYTES bytes and sign_open of them returns the |m|
\* bytes of m.
C14_RoundTrip ==
    RoundTripDone =>
        LET m == calls[1].argv[1]
            mlen == m.size - MsgPadOf(calls[1].name)
            sealed == calls[1].res.bins[1]
            opened == calls[2].res
        IN
        /\ sealed.len = IF PadOf(calls[1].name) = 0
                        THEN mlen + crypto_sign_BYTES
                        ELSE mlen + MsgPadOf(calls[1].name) - PadOf(calls[1].name)
        /\ opened.kind = "return"
        /\ opened.term = "binary"
        /\ opened.bins[1].data = Plain(InOf(m))
        /\ opened.bins[1].pos = MsgPadOf(calls[1].name)
        /\ opened.bins[1].len = mlen
        /\ opened.bins[1].pos + opened.bins[1].len <= opened.bins[1].size

\* a message of 68 bytes sealed by secretbox came back from secretbox_open
C14_Witness ==
    /\ RoundTripDone
    /\ calls[1].name = "crypto_secretbox"
    /\ calls[1].argv[1].size = 100
    /\ calls[1].res.bins[1].len = 84
    /\ calls[2].res.term = "binary"
    /\ calls[2].res.bins[1].len = 68


\* the entries that return one binary made by a primitive without a check
LenNames ==
    {"crypto_hash", "crypto_hash_b", "crypto_auth", "crypto_auth_b",
     "crypto_onetimeauth", "crypto_onetimeauth_b", "crypto_stream", "crypto_stream_b",
     "crypto_stream_xor", "crypto_stream_xor_b", "crypto_box", "crypto_box_b",
     "crypto_secretbox", "crypto_secretbox_b", "crypto_sign", "crypto_sign_b"}

\* the length of the binary an entry returns, from the lengths of its inputs
ExpectedLen(name, argv) ==
    CASE name \in {"crypto_hash", "crypto_hash_b"} -> crypto_hash_BYTES
      [] name \in {"crypto_auth", "crypto_auth_b"} -> crypto_auth_BYTES
      [] name \in {"crypto_onetimeauth", "crypto_onetimeauth_b"} -> crypto_onetimeauth_BYTES
      [] name \in {"crypto_stream", "crypto_stream_b"} -> argv[1].size
      [] name \in {"crypto_stream_xor", "crypto_stream_xor_b"} -> argv[1].size
      [] name \in {"crypto_box", "crypto_box_b"} -> argv[1].size - crypto_box_BOXZEROBYTES
      [] name \in {"crypto_secretbox", "crypto_secretbox_b"} ->
            argv[1].size - crypto_secretbox_BOXZEROBYTES
      [] name \in {"crypto_sign", "crypto_sign_b"} -> argv[1].size + crypto_sign_BYTES

\* C15: on success the length of the returned binary follows from the
\* lengths of the inputs alone: crypto_hash_BYTES for hash, crypto_auth_BYTES
\* for auth, crypto_onetimeauth_BYTES for onetimeauth, clen for stream, the
\* message's length for stream_xor, padded_msg.size - BOXZEROBYTES for box
\* and secretbox, and for sign the smlen the primitive reports, which is
\* m.size + crypto_sign_BYTES and so within the allocated binary; in every
\* case the returned bytes lie inside the allocated binary.
C15_ResultLength ==
    \A c \in Calls :
        (Done(c) /\ calls[c].name \in LenNames /\ calls[c].res.kind = "return"
            /\ calls[c].res.term # "error") =>
            /\ calls[c].res.term = "binary"
            /\ Len(calls[c].res.bins) = 1
            /\ calls[c].res.bins[1].len = ExpectedLen(calls[c].name, calls[c].argv)
            /\ calls[c].res.bins[1].len >= 0
            /\ calls[c].res.bins[1].pos + calls[c].res.bins[1].len
                  <= calls[c].res.bins[1].size

\* crypto_stream asked for 40 bytes has returned a binary of 40 bytes
C15_Witness ==
    \E c \in Calls :
        /\ Done(c)
        /\ calls[c].name = "crypto_stream"
        /\ calls[c].argv[1] = Term("integer", 40, 0)
        /\ calls[c].res.term = "binary"
        /\ calls[c].res.bins[1].len = 40
        /\ calls[c].res.bins[1].size = 40

====
